---- MODULE Spec2Model ----
(***************************************************************************)
(* Model of salt/renderers/py.py: the pure-python renderer.                *)
(*                                                                         *)
(*   render(template, saltenv="base", sls="", tmplpath=None, **kws)        *)
(*                                                                         *)
(* checks that tmplpath is a regular file, calls salt.utils.templates.py   *)
(* with the built-in bindings, their aliases and **kws, and turns the      *)
(* returned dict into a return value or a SaltRenderError.                 *)
(*                                                                         *)
(* Python values are records [type, val, id]: the type name, a printable   *)
(* content and the object's identity (0 for objects without a tracked      *)
(* identity).  A dict is a function from its keys to values.               *)
(***************************************************************************)
EXTENDS Naturals, Sequences, FiniteSets, TLC

\* ------------------------------------------------------------------ bounds
\* Number of render calls that may be in flight at once (SpecConc).
NumCalls == 2
\* Largest number of keyword arguments, besides tmplpath, in one call (Spec).
MaxExtra == 1

Calls == 1..NumCalls

\* ------------------------------------------------------------ python values
Str(s) == [type |-> "str", val |-> s, id |-> 0]
PyNone == [type |-> "NoneType", val |-> "None", id |-> 0]
PyTrue == [type |-> "bool", val |-> "True", id |-> 0]
PyFalse == [type |-> "bool", val |-> "False", id |-> 0]
PyInt(s) == [type |-> "int", val |-> s, id |-> 0]
PyDict(s, i) == [type |-> "dict", val |-> s, id |-> i]
\* Placeholder of the model for "no value here" (not a python value).
NoValue == [type |-> "-", val |-> "-", id |-> 0]
EmptyDict == [n \in {} |-> NoValue]

\* bool(v): python's truth value, used by "if not ...".
Truthy(v) ==
  CASE v.type = "bool" -> v.val = "True"
    [] v.type = "int" -> v.val # "0"
    [] v.type = "str" -> v.val # ""
    [] v.type = "dict" -> v.val # "{}"
    [] v.type = "NoneType" -> FALSE
    [] OTHER -> TRUE

\* d.get(k, default)
DictGet(d, k, default) == IF k \in DOMAIN d THEN d[k] ELSE default

\* ------------------------------------------------------- the loader's globals
\* __salt__, __grains__, __opts__, __pillar__: module globals injected by the
\* loader, the same objects in every render call.
G_salt == PyDict("__salt__", 1)
G_grains == PyDict("__grains__", 2)
G_opts == PyDict("__opts__", 3)
G_pillar == PyDict("__pillar__", 4)
SharedObjs == {"__salt__", "__grains__", "__opts__", "__pillar__"}

\* The keyword names the call at lines 145-161 spells out.
BuiltinNames ==
  {"__salt__", "salt", "__grains__", "grains", "__opts__", "opts",
   "__pillar__", "pillar", "__env__", "saltenv", "__sls__", "sls"}
\* The named parameters of render (line 135).
ParamNames == <<"template", "saltenv", "sls", "tmplpath">>
ParamSet == {ParamNames[i] : i \in 1..Len(ParamNames)}
DefaultSaltenv == Str("base")
DefaultSls == Str("")
DefaultTmplpath == PyNone

\* ---------------------------------------------------------- the file system
FilePath == "/srv/salt/top.py"
MissingPath == "/srv/salt/missing.py"
DirPath == "/srv/salt"
Paths == {FilePath, MissingPath, DirPath}
FileKind(p) ==
  CASE p = FilePath -> "file"
    [] p = DirPath -> "dir"
    [] OTHER -> "missing"

\* The same test with os.path.exists in place of os.path.isfile.
os_path_exists(v) ==
  IF v.type # "str" THEN "TypeError"
  ELSE IF FileKind(v.val) # "missing" THEN "true" ELSE "false"

\* os.path.isfile(v): "true"/"false", or "TypeError" for a value that is no
\* path (os.stat(None) raises TypeError, which isfile does not catch).
os_path_isfile(v) ==
  IF v.type # "str" THEN "TypeError"
  ELSE IF FileKind(v.val) = "file" THEN "true" ELSE "false"

\* "Template {} is not a file!".format(template)
TemplateMsg(v) == Str("Template " \o v.val \o " is not a file!")
\* The default of tmp_data.get("data", ...)
DefaultMsg == Str("Unknown render error in py renderer")

\* ------------------------------------------------------------------ outcomes
Pending == [kind |-> "pending", exc |-> "-", value |-> NoValue]
Return(v) == [kind |-> "return", exc |-> "-", value |-> v]
Raise(e, v) == [kind |-> "raise", exc |-> e, value |-> v]

\* --------------------------------------------------------- argument binding
NoArgs ==
  [template |-> NoValue, saltenv |-> NoValue, sls |-> NoValue,
   tmplpath |-> NoValue, kws |-> EmptyDict]
NoCall == [pos |-> <<>>, kw |-> EmptyDict]

\* Python's binding of a call render(*pos, **kw) to the parameters of line 135:
\* a parameter given both by position and by keyword is a TypeError.
BindClash(pos, kw) ==
  \E i \in 1..Len(pos) : ParamNames[i] \in DOMAIN kw

Param(pos, kw, i, default) ==
  IF i <= Len(pos) THEN pos[i]
  ELSE IF ParamNames[i] \in DOMAIN kw THEN kw[ParamNames[i]]
  ELSE default

BindArgs(pos, kw) ==
  [template |-> Param(pos, kw, 1, NoValue),
   saltenv |-> Param(pos, kw, 2, DefaultSaltenv),
   sls |-> Param(pos, kw, 3, DefaultSls),
   tmplpath |-> Param(pos, kw, 4, DefaultTmplpath),
   kws |-> [n \in DOMAIN kw \ ParamSet |-> kw[n]]]

\* ----------------------------------------------------------- context builder
\* The keywords with one alias bound to the wrong global.
BuiltinsAliasSlip(a) ==
  [n \in BuiltinNames |->
     CASE n \in {"__salt__", "salt"} -> G_salt
       [] n \in {"__grains__", "grains"} -> G_grains
       [] n \in {"__opts__"} -> G_opts
       [] n \in {"__pillar__", "pillar", "opts"} -> G_pillar
       [] n \in {"__env__", "saltenv"} -> a.saltenv
       [] OTHER -> a.sls]

\* The explicit keywords of the call at lines 148-159.
Builtins(a) ==
  [n \in BuiltinNames |->
     CASE n \in {"__salt__", "salt"} -> G_salt
       [] n \in {"__grains__", "grains"} -> G_grains
       [] n \in {"__opts__", "opts"} -> G_opts
       [] n \in {"__pillar__", "pillar"} -> G_pillar
       [] n \in {"__env__", "saltenv"} -> a.saltenv
       [] OTHER -> a.sls]

\* The keywords merged as dicts instead: no clash, **kws wins.
KeywordClashIgnored(a) == FALSE

\* A keyword given both explicitly and through **kws is a TypeError, raised
\* by the call expression before the callee runs.
KeywordClash(a) == DOMAIN a.kws \cap BuiltinNames # {}

\* The keyword arguments salt.utils.templates.py receives.
BuildContext(a) == a.kws @@ Builtins(a)

\* pc: each call's position in render; call: the arguments as the caller wrote
\* them; args: render's parameters after binding; located: the value
\* os.path.isfile accepted; ctx, execPath, execCount: what the executor was
\* called with and how often; envelope: tmp_data; outcome: what render
\* returned or raised; written: the shared objects some script has written to.
VARIABLES pc, call, args, located, ctx, execPath, execCount, envelope, outcome,
          written

vars ==
  <<pc, call, args, located, ctx, execPath, execCount, envelope, outcome, written>>

Init ==
  /\ pc = [c \in Calls |-> "idle"]
  /\ call = [c \in Calls |-> NoCall]
  /\ args = [c \in Calls |-> NoArgs]
  /\ located = [c \in Calls |-> NoValue]
  /\ ctx = [c \in Calls |-> EmptyDict]
  /\ execPath = [c \in Calls |-> NoValue]
  /\ execCount = [c \in Calls |-> 0]
  /\ envelope = [c \in Calls |-> EmptyDict]
  /\ outcome = [c \in Calls |-> Pending]
  /\ written = {}

\* Line 135: a caller calls render(*pos, **kw).
CallRender(c, pos, kw) ==
  /\ pc[c] = "idle"
  /\ call' = [call EXCEPT ![c] = [pos |-> pos, kw |-> kw]]
  /\ IF BindClash(pos, kw)
       THEN /\ pc' = [pc EXCEPT ![c] = "raised"]
            /\ outcome' = [outcome EXCEPT ![c] = Raise("TypeError", NoValue)]
            /\ UNCHANGED args
       ELSE /\ pc' = [pc EXCEPT ![c] = "locate"]
            /\ args' = [args EXCEPT ![c] = BindArgs(pos, kw)]
            /\ UNCHANGED outcome
  /\ UNCHANGED <<located, ctx, execPath, execCount, envelope, written>>

\* Lines 141-143: template = tmplpath; the os.path.isfile gate.
Locate(c) ==
  /\ pc[c] = "locate"
  /\ LET template == args[c].tmplpath
         isfile == os_path_isfile(template)
     IN /\ args' = [args EXCEPT ![c].template = template]
        /\ CASE isfile = "TypeError" ->
                  /\ pc' = [pc EXCEPT ![c] = "raised"]
                  /\ outcome' = [outcome EXCEPT ![c] = Raise("TypeError", NoValue)]
             [] isfile = "false" ->
                  /\ pc' = [pc EXCEPT ![c] = "raised"]
                  /\ outcome' = [outcome EXCEPT ![c] =
                                   Raise("SaltRenderError", TemplateMsg(template))]
             [] OTHER ->
                  /\ pc' = [pc EXCEPT ![c] = "execute"]
                  /\ UNCHANGED outcome
        /\ located' = [located EXCEPT ![c] =
                         IF isfile = "true" THEN template ELSE NoValue]
  /\ UNCHANGED <<call, ctx, execPath, execCount, envelope, written>>

\* The call with one module-level context dict, updated in place and seen by
\* every executor still running.
InvokeExecutorSharedContext(c) ==
  /\ pc[c] = "execute"
  /\ IF KeywordClash(args[c])
       THEN /\ pc' = [pc EXCEPT ![c] = "raised"]
            /\ outcome' = [outcome EXCEPT ![c] = Raise("TypeError", NoValue)]
            /\ UNCHANGED <<ctx, execPath, execCount>>
       ELSE /\ pc' = [pc EXCEPT ![c] = "executing"]
            /\ ctx' = [d \in Calls |->
                         IF d = c \/ execCount[d] >= 1
                           THEN BuildContext(args[c]) ELSE ctx[d]]
            /\ execPath' = [execPath EXCEPT ![c] = args[c].template]
            /\ execCount' = [execCount EXCEPT ![c] = @ + 1]
            /\ UNCHANGED outcome
  /\ UNCHANGED <<call, args, located, envelope, written>>

\* Lines 145-161: the call salt.utils.templates.py(template, True, ..., **kws).
InvokeExecutor(c) ==
  /\ pc[c] = "execute"
  /\ IF KeywordClash(args[c])
       THEN /\ pc' = [pc EXCEPT ![c] = "raised"]
            /\ outcome' = [outcome EXCEPT ![c] = Raise("TypeError", NoValue)]
            /\ UNCHANGED <<ctx, execPath, execCount>>
       ELSE /\ pc' = [pc EXCEPT ![c] = "executing"]
            /\ ctx' = [ctx EXCEPT ![c] = BuildContext(args[c])]
            /\ execPath' = [execPath EXCEPT ![c] = args[c].template]
            /\ execCount' = [execCount EXCEPT ![c] = @ + 1]
            /\ UNCHANGED outcome
  /\ UNCHANGED <<call, args, located, envelope, written>>

\* salt.utils.templates.py runs the script and returns its dict; the script
\* may have written to the objects bound in its context.
ExecutorReturn(c, env, w) ==
  /\ pc[c] = "executing"
  /\ pc' = [pc EXCEPT ![c] = "validate"]
  /\ envelope' = [envelope EXCEPT ![c] = env]
  /\ written' = written \cup w
  /\ UNCHANGED <<call, args, located, ctx, execPath, execCount, outcome>>

\* The message without looking at data.
ErrorArgDefaultOnly(tmp_data) == DefaultMsg
\* tmp_data.get("data"): no default.
ErrorArgNoDefault(tmp_data) == DictGet(tmp_data, "data", PyNone)
\* tmp_data.get("data") or "Unknown ...": the default for empty data too.
ErrorArgOrDefault(tmp_data) ==
  IF "data" \in DOMAIN tmp_data /\ Truthy(tmp_data["data"])
    THEN tmp_data["data"] ELSE DefaultMsg

\* Lines 162-165: the message of the SaltRenderError for a falsy result.
ErrorArg(tmp_data) == DictGet(tmp_data, "data", DefaultMsg)

\* return copy.deepcopy(tmp_data["data"]): a new object.
ReturnOutcomeCopy(tmp_data) ==
  IF "data" \in DOMAIN tmp_data
    THEN Return([tmp_data["data"] EXCEPT !.id = @ + 100])
    ELSE Raise("KeyError", Str("data"))
\* return tmp_data.get("data")
ReturnOutcomeGet(tmp_data) == Return(DictGet(tmp_data, "data", PyNone))

\* Line 167: return tmp_data["data"] (KeyError when the key is missing).
ReturnOutcome(tmp_data) ==
  IF "data" \in DOMAIN tmp_data
    THEN Return(tmp_data["data"])
    ELSE Raise("KeyError", Str("data"))

\* The result check that runs the executor again after a falsy result.
ValidateRetry(c) ==
  /\ pc[c] = "validate"
  /\ IF ~Truthy(DictGet(envelope[c], "result", PyFalse))
       THEN /\ pc' = [pc EXCEPT ![c] = "execute"]
            /\ UNCHANGED outcome
       ELSE /\ outcome' = [outcome EXCEPT ![c] = ReturnOutcome(envelope[c])]
            /\ pc' = [pc EXCEPT ![c] =
                        IF outcome'[c].kind = "return" THEN "returned" ELSE "raised"]
  /\ UNCHANGED <<call, args, located, ctx, execPath, execCount, envelope, written>>

\* Lines 162-167: the result check.
Validate(c) ==
  /\ pc[c] = "validate"
  /\ IF ~Truthy(DictGet(envelope[c], "result", PyFalse))
       THEN /\ pc' = [pc EXCEPT ![c] = "raised"]
            /\ outcome' = [outcome EXCEPT ![c] =
                             Raise("SaltRenderError", ErrorArg(envelope[c]))]
       ELSE /\ outcome' = [outcome EXCEPT ![c] = ReturnOutcome(envelope[c])]
            /\ pc' = [pc EXCEPT ![c] =
                        IF outcome'[c].kind = "return" THEN "returned" ELSE "raised"]
  /\ UNCHANGED <<call, args, located, ctx, execPath, execCount, envelope, written>>

\* ------------------------------------------------------------------- inputs
\* What a caller may pass.  The first positional argument is the template
\* text, which line 141 overwrites; saltenv and sls may follow by position.
TemplateText == Str("#!py")
PosArgs ==
  {<<TemplateText>>, <<TemplateText, Str("dev")>>,
   <<TemplateText, Str("dev"), Str("web.init")>>}
\* The value a caller passes for any extra keyword.
Override == [type |-> "str", val |-> "override", id |-> 9]
ExtraNames == BuiltinNames \cup {"context"}
Extras ==
  UNION {[S -> {Override}] : S \in {T \in SUBSET ExtraNames : Cardinality(T) <= MaxExtra}}
TmplpathKw == {EmptyDict} \cup {"tmplpath" :> Str(p) : p \in Paths}
KwArgs == {t @@ e : t \in TmplpathKw, e \in Extras}

\* The dicts the executor may return.
Tree == PyDict("{common_packages: {pkg.installed: [{pkgs: [curl, vim]}]}}", 10)
Envelopes ==
  {("result" :> PyTrue) @@ ("data" :> Tree),
   ("result" :> PyTrue) @@ ("data" :> PyNone),
   ("result" :> PyInt("1")) @@ ("data" :> Str("plain text")),
   "result" :> PyTrue,
   ("result" :> PyFalse) @@ ("data" :> Str("syntax error at line 4")),
   ("result" :> PyFalse) @@ ("data" :> Str("")),
   ("result" :> PyInt("0")) @@ ("data" :> Tree),
   "result" :> PyFalse,
   "data" :> Str("traceback"),
   EmptyDict}
Writes == {{}} \cup {{o} : o \in SharedObjs}

\* One render call, every argument shape.
SeqCall == 1
Next ==
  \/ \E pos \in PosArgs, kw \in KwArgs : CallRender(SeqCall, pos, kw)
  \/ Locate(SeqCall)
  \/ InvokeExecutor(SeqCall)
  \/ \E env \in Envelopes, w \in Writes : ExecutorReturn(SeqCall, env, w)
  \/ Validate(SeqCall)

Spec == Init /\ [][Next]_vars

\* Concurrent render calls (threads rendering the same or different files),
\* interleaved at the file test and the executor call.
ConcPosArgs == {<<TemplateText>>, <<TemplateText, Str("dev")>>,
                <<TemplateText, Str("prod"), Str("web.init")>>}
ConcKwArgs ==
  {t @@ e : t \in {"tmplpath" :> Str(FilePath), "tmplpath" :> Str(MissingPath)},
            e \in {EmptyDict, "context" :> Override}}
ConcEnvelopes ==
  {("result" :> PyTrue) @@ ("data" :> Tree),
   ("result" :> PyFalse) @@ ("data" :> Str("syntax error at line 4"))}
ConcWrites == {{}, {"__opts__"}}

NextConc ==
  \E c \in Calls :
    \/ \E pos \in ConcPosArgs, kw \in ConcKwArgs : CallRender(c, pos, kw)
    \/ Locate(c)
    \/ InvokeExecutor(c)
    \/ \E env \in ConcEnvelopes, w \in ConcWrites : ExecutorReturn(c, env, w)
    \/ Validate(c)

SpecConc == Init /\ [][NextConc]_vars

\* ------------------------------------------------------------------- claims
Done(c) == pc[c] \in {"returned", "raised"}
\* The call went through the result check of lines 162-167.
Validated(c) == Done(c) /\ execCount[c] = 1
\* The call's arguments bound, with tmplpath a path string.
HasPath(c) == pc[c] # "idle" /\ args[c].tmplpath.type = "str"
PathIsFile(c) == HasPath(c) /\ FileKind(args[c].tmplpath.val) = "file"
\* The keyword arguments of the call other than tmplpath: the overrides.
ExtraKeys(c) == DOMAIN call[c].kw \ {"tmplpath"}
Colliding(c) == ExtraKeys(c) \cap BuiltinNames
\* The caller passed the path of a regular file as tmplpath.
CalledWithFile(c) ==
  /\ "tmplpath" \in DOMAIN call[c].kw
  /\ FileKind(call[c].kw["tmplpath"].val) = "file"
Result(c) == DictGet(envelope[c], "result", PyFalse)
\* The error raised at line 143 (the spec's TemplateNotFound).
TemplateNotFound(c) == Raise("SaltRenderError", TemplateMsg(args[c].tmplpath))

\* C1: for a path that does not exist or is not a regular file, render fails
\* with the error of line 143 and the executor is never invoked in that call.
C1_MissingTemplateNeverExecuted ==
  \A c \in Calls :
    (HasPath(c) /\ ~PathIsFile(c)) =>
      /\ execCount[c] = 0
      /\ ctx[c] = EmptyDict
      /\ pc[c] \in {"locate", "raised"}
      /\ pc[c] = "raised" => outcome[c] = TemplateNotFound(c)

C1_Witness ==
  \E c \in Calls :
    /\ pc[c] = "raised"
    /\ args[c].tmplpath = Str(DirPath)
    /\ outcome[c] = Raise("SaltRenderError", Str("Template /srv/salt is not a file!"))
    /\ execCount[c] = 0

\* C2 as claimed: for an override key that collides with a built-in name or
\* alias, the executor is invoked and its context binds the name to the
\* override's value.
C2_OverrideWins ==
  \A c \in Calls :
    (Done(c) /\ CalledWithFile(c)) =>
      \A k \in Colliding(c) :
        execCount[c] = 1 /\ ctx[c][k] = call[c].kw[k]

Twin(k) == IF k = "saltenv" THEN "__env__" ELSE "__sls__"

\* C2 amended: a colliding key other than saltenv and sls makes the executor
\* call a TypeError and the executor is not invoked; saltenv and sls bind
\* render's own parameters: a TypeError when also given by position, else
\* (with no other colliding key) the executor is invoked and the name and its
\* reserved twin are both bound to the override's value.
C2_CollidingOverride ==
  \A c \in Calls :
    (Done(c) /\ CalledWithFile(c)) =>
      \A k \in Colliding(c) :
        IF /\ Colliding(c) \subseteq {"saltenv", "sls"}
           /\ "saltenv" \in Colliding(c) => Len(call[c].pos) < 2
           /\ "sls" \in Colliding(c) => Len(call[c].pos) < 3
          THEN /\ execCount[c] = 1
               /\ ctx[c][k] = call[c].kw[k]
               /\ ctx[c][Twin(k)] = call[c].kw[k]
          ELSE /\ execCount[c] = 0
               /\ outcome[c] = Raise("TypeError", NoValue)

C2_Witness ==
  \E c \in Calls :
    /\ pc[c] = "raised"
    /\ PathIsFile(c)
    /\ "salt" \in Colliding(c)
    /\ outcome[c].exc = "TypeError"

C4_FailureCarriesData ==
  \A c \in Calls :
    (/\ Validated(c)
     /\ "result" \in DOMAIN envelope[c] /\ ~Truthy(Result(c))
     /\ "data" \in DOMAIN envelope[c] /\ Truthy(envelope[c]["data"])) =>
      /\ pc[c] = "raised"
      /\ outcome[c] = Raise("SaltRenderError", envelope[c]["data"])

C4_Witness ==
  \E c \in Calls :
    /\ pc[c] = "raised"
    /\ envelope[c] = ("result" :> PyFalse) @@ ("data" :> Str("syntax error at line 4"))
    /\ outcome[c].value = Str("syntax error at line 4")

NoDataFailure(c) ==
  /\ Validated(c)
  /\ "result" \in DOMAIN envelope[c] /\ ~Truthy(Result(c))
  /\ "data" \notin DOMAIN envelope[c]

\* C5 as claimed: for {result: false} without data the message is
\* "Unknown render error in renderer".
C5_DefaultMessageAsClaimed ==
  \A c \in Calls :
    NoDataFailure(c) =>
      outcome[c] = Raise("SaltRenderError", Str("Unknown render error in renderer"))

\* C5 amended: for {result: false} without data the message is the fixed
\* default "Unknown render error in py renderer".
C5_DefaultMessage ==
  \A c \in Calls :
    NoDataFailure(c) =>
      /\ pc[c] = "raised"
      /\ outcome[c] =
           Raise("SaltRenderError", Str("Unknown render error in py renderer"))

C5_Witness ==
  \E c \in Calls :
    /\ pc[c] = "raised"
    /\ envelope[c] = ("result" :> PyFalse)
    /\ execCount[c] = 1
    /\ outcome[c].exc = "SaltRenderError"

EmptyDataFailure(c) ==
  /\ Validated(c)
  /\ ~Truthy(Result(c))
  /\ "data" \in DOMAIN envelope[c] /\ ~Truthy(envelope[c]["data"])

\* C6 as claimed: for a falsy result whose data is present but empty, the
\* error carries the fixed default message, not the empty data.
C6_EmptyDataGivesDefault ==
  \A c \in Calls :
    EmptyDataFailure(c) => outcome[c] = Raise("SaltRenderError", DefaultMsg)

\* C6 amended: for a falsy result whose data is present but empty, the error
\* carries that empty data; the default is used only when data is missing.
C6_EmptyDataIsTheMessage ==
  \A c \in Calls :
    EmptyDataFailure(c) =>
      /\ pc[c] = "raised"
      /\ outcome[c] = Raise("SaltRenderError", envelope[c]["data"])
      /\ outcome[c].value # DefaultMsg

C6_Witness ==
  \E c \in Calls :
    /\ pc[c] = "raised"
    /\ execCount[c] = 1
    /\ envelope[c] = ("result" :> PyFalse) @@ ("data" :> Str(""))
    /\ outcome[c].value = Str("")

\* C7 as claimed: a render call that returns no value fails with the error
\* of line 143 before execution or the error of line 163 after it, and with
\* nothing else.
C7_OnlyTwoErrors ==
  \A c \in Calls :
    pc[c] = "raised" =>
      /\ outcome[c].exc = "SaltRenderError"
      /\ execCount[c] = 0 => outcome[c] = TemplateNotFound(c)

\* What a finished call must have produced, from the caller's arguments and
\* the executor's dict alone.
PosOrKw(c, i, default) ==
  IF Len(call[c].pos) >= i THEN call[c].pos[i]
  ELSE DictGet(call[c].kw, ParamNames[i], default)
DoublyGiven(c) ==
  \E i \in 1..Len(call[c].pos) : ParamNames[i] \in DOMAIN call[c].kw
ExpectedOutcome(c) ==
  LET path == PosOrKw(c, 4, PyNone)
      clash == (ExtraKeys(c) \ {"saltenv", "sls"}) \cap BuiltinNames # {}
      env == envelope[c]
  IN IF DoublyGiven(c) THEN Raise("TypeError", NoValue)
     ELSE IF path.type # "str" THEN Raise("TypeError", NoValue)
     ELSE IF FileKind(path.val) # "file"
       THEN Raise("SaltRenderError",
                  Str("Template " \o path.val \o " is not a file!"))
     ELSE IF clash THEN Raise("TypeError", NoValue)
     ELSE IF "result" \notin DOMAIN env \/ ~Truthy(env["result"])
       THEN Raise("SaltRenderError",
                  IF "data" \in DOMAIN env THEN env["data"]
                  ELSE Str("Unknown render error in py renderer"))
     ELSE IF "data" \notin DOMAIN env THEN Raise("KeyError", Str("data"))
     ELSE Return(env["data"])

\* C7 amended: a render call that returns no value fails with SaltRenderError
\* (tmplpath not a regular file, before execution; a falsy result, after it),
\* with TypeError (tmplpath omitted, an argument given twice, an extra key
\* colliding with a spelled-out keyword; all before execution) or with
\* KeyError (a truthy result without a data entry); nothing else escapes.
C7_ErrorKinds ==
  \A c \in Calls :
    Done(c) =>
      /\ outcome[c] = ExpectedOutcome(c)
      /\ pc[c] = "raised" <=> outcome[c].kind = "raise"
      /\ pc[c] = "raised" =>
           /\ outcome[c].exc \in {"SaltRenderError", "TypeError", "KeyError"}
           /\ outcome[c].exc = "TypeError" => execCount[c] = 0
           /\ outcome[c].exc = "KeyError" => execCount[c] = 1

C7_Witness ==
  \E c \in Calls :
    /\ pc[c] = "raised"
    /\ outcome[c].exc = "KeyError"
    /\ envelope[c] = ("result" :> PyTrue)

\* The envId and slsId arguments of the call: given by position, or the
\* defaults "base" and "".
EnvId(c) == IF Len(call[c].pos) >= 2 THEN call[c].pos[2] ELSE Str("base")
SlsId(c) == IF Len(call[c].pos) >= 3 THEN call[c].pos[3] ELSE Str("")

\* C8: in every context passed to the executor by a call with no colliding
\* override, each built-in is bound under its reserved name and its alias to
\* the identical value.
C8_ReservedAndAlias ==
  \A c \in Calls :
    (execCount[c] >= 1 /\ Colliding(c) = {}) =>
      /\ BuiltinNames \subseteq DOMAIN ctx[c]
      /\ ctx[c]["__salt__"] = PyDict("__salt__", 1) /\ ctx[c]["salt"] = ctx[c]["__salt__"]
      /\ ctx[c]["__grains__"] = PyDict("__grains__", 2)
      /\ ctx[c]["grains"] = ctx[c]["__grains__"]
      /\ ctx[c]["__opts__"] = PyDict("__opts__", 3) /\ ctx[c]["opts"] = ctx[c]["__opts__"]
      /\ ctx[c]["__pillar__"] = PyDict("__pillar__", 4)
      /\ ctx[c]["pillar"] = ctx[c]["__pillar__"]
      /\ ctx[c]["__env__"] = EnvId(c) /\ ctx[c]["saltenv"] = EnvId(c)
      /\ ctx[c]["__sls__"] = SlsId(c) /\ ctx[c]["sls"] = SlsId(c)

C8_Witness ==
  \E c \in Calls :
    /\ pc[c] = "executing"
    /\ Len(call[c].pos) = 1
    /\ "context" \in ExtraKeys(c)
    /\ ctx[c]["saltenv"] = Str("base")
    /\ ctx[c]["sls"] = Str("")
    /\ ctx[c]["context"] = Override

\* The order of the steps of one call.
Edges ==
  {<<"idle", "locate">>, <<"idle", "raised">>, <<"locate", "execute">>,
   <<"locate", "raised">>, <<"execute", "executing">>, <<"execute", "raised">>,
   <<"executing", "validate">>, <<"validate", "returned">>,
   <<"validate", "raised">>}
CallState(c) ==
  <<pc[c], call[c], args[c], located[c], ctx[c], execPath[c], execCount[c],
    envelope[c], outcome[c]>>
SequentialState ==
  \A c \in Calls :
    /\ execCount[c] <= 1
    /\ pc[c] \in {"executing", "validate", "returned"} => execCount[c] = 1
    /\ pc[c] \in {"idle", "locate", "execute"} => execCount[c] = 0
    /\ execCount[c] = 1 =>
         /\ located[c].type = "str" /\ FileKind(located[c].val) = "file"
         /\ execPath[c] = located[c]
    /\ pc[c] = "raised" => outcome[c].kind = "raise"
    /\ pc[c] = "returned" => outcome[c].kind = "return"
    /\ ~Done(c) => outcome[c] = Pending
SequentialStep ==
  \A c \in Calls :
    /\ pc'[c] # pc[c] => <<pc[c], pc'[c]>> \in Edges
    /\ execCount'[c] # execCount[c] =>
         pc[c] = "execute" /\ execCount'[c] = execCount[c] + 1
    /\ Done(c) => CallState(c)' = CallState(c)

\* C9: the steps of one call are strictly sequential; the executor is invoked
\* at most once, only after the file test succeeded and with the path that was
\* tested; after a failure no further step of that call runs.
C9_StrictlySequential == []SequentialState /\ [][SequentialStep]_vars

C9_Witness ==
  \E c \in Calls :
    /\ pc[c] = "raised"
    /\ execCount[c] = 1
    /\ execPath[c] = Str(FilePath)
    /\ located[c] = Str(FilePath)

\* The context a call's own arguments determine.
OwnContext(c) ==
  [n \in BuiltinNames \cup ExtraKeys(c) |->
     IF n \in ExtraKeys(c) THEN call[c].kw[n]
     ELSE CASE n \in {"__salt__", "salt"} -> PyDict("__salt__", 1)
            [] n \in {"__grains__", "grains"} -> PyDict("__grains__", 2)
            [] n \in {"__opts__", "opts"} -> PyDict("__opts__", 3)
            [] n \in {"__pillar__", "pillar"} -> PyDict("__pillar__", 4)
            [] n \in {"__env__", "saltenv"} -> EnvId(c)
            [] OTHER -> SlsId(c)]
ContextsAreOwn ==
  \A c \in Calls :
    IF execCount[c] >= 1 THEN ctx[c] = OwnContext(c) ELSE ctx[c] = EmptyDict
OnlyScriptsWrite ==
  written' # written =>
    \E c \in Calls : pc[c] = "executing" /\ pc'[c] = "validate"

\* C10: under any interleaving of render calls, the executor of each call sees
\* a context built from that call's arguments alone, and no step of render
\* writes to the shared registry, facts, pillar or options objects.
C10_ContextPerCall == []ContextsAreOwn /\ [][OnlyScriptsWrite]_vars

C10_Witness ==
  \E c, d \in Calls :
    /\ c # d
    /\ pc[c] = "executing" /\ pc[d] = "validate"
    /\ ctx[c]["saltenv"] # ctx[d]["saltenv"]
    /\ "context" \in DOMAIN ctx[c] /\ "context" \notin DOMAIN ctx[d]
    /\ written = {"__opts__"}

====
